---- MODULE Spec2Model ----
(***************************************************************************)
(* Model of conanfile.py (camp_common): the LazyProperty descriptor, the   *)
(* CUDA SDK discovery of CampCudaBase and the build lifecycle of           *)
(* CampCMakeBase.                                                          *)
(***************************************************************************)
EXTENDS Integers, Sequences, FiniteSets, TLC

VARIABLES
    \* ---- LazyProperty ----
    env,          \* external state: what a computation would produce now
    cache,        \* cache[o][a]: the attribute "_<method name>" of owner o
    methodCalls,  \* methodCalls[o][a]: invocations of self.method(instance)
    fgetCalls,    \* fgetCalls[o][a]: invocations of self.fget(instance)
    reads,        \* reads[o][a]: number of __get__ calls on (o, a)
    lastResult,   \* lastResult[o][a]: outcome of the latest __get__
    firstOutcome, \* firstOutcome[o][a]: outcome of the first __get__
    preset,       \* preset[o][a]: cache key set directly before any read
    tampered,     \* tampered[o][a]: cache key set directly after a read
    nops,         \* number of reads and direct sets made so far
    \* ---- CampCMakeBase lifecycle ----
    call,         \* the lifecycle method running or last run ("idle": none)
    done,         \* steps of the current call that ran to completion
    failed,       \* the step of the current call that raised (NoStep: none)
    outcome,      \* "running", "returned" or "raised"
    finished,     \* <<method, outcome>> of the earlier calls
    ncalls,       \* number of lifecycle calls started
    \* ---- CampCudaBase ----
    platform,     \* tools.os_info: "linux", "windows" or "macos"
    optVersion,   \* options.get_safe("cuda_version", "ANY") as a string
    optRoot,      \* options.get_safe("cuda_root", "ANY") as a string
    fsExists,     \* the paths for which os.path.exists is True
    nvccOut,      \* nvccOut[root]: what running <root>/bin/nvcc produces
    sdkRootCache, \* the owner's cached _cuda_sdk_root (Absent: none)
    versionCache, \* the owner's cached _cuda_version (Absent: none)
    lastSdkRoot,  \* outcome of the latest read of _cuda_sdk_root
    lastVersion,  \* outcome of the latest read of _cuda_version
    lastDiscovery,\* outcome of the latest __cuda_get_sdk_root_and_version
    cudaReads,    \* number of reads of the two accessors
    \* ---- CampPythonBase ----
    pyOs,         \* tools.os_info: "windows", "windows_subsystem" or "posix"
    optPython,    \* options.python (Absent: the option is not declared)
    optWithSystem,\* options.with_system_python (Absent: not declared)
    pyRuns,       \* whether the interpreter command can be run
    sysInclude,   \* output of sysconfig.get_path('include') (RunFails: none)
    sysIncludePy, \* output of sysconfig.get_config_var('INCLUDEPY')
    fsFiles,      \* the files for which os.path.exists is True
    execCache,    \* the owner's cached _python_exec (Absent: none)
    includeCache, \* the owner's cached _python_include_dir (Absent: none)
    lastExec,     \* outcome of the latest read of _python_exec
    lastInclude,  \* outcome of the latest read of _python_include_dir
    pyReads,      \* number of reads of the two accessors
    \* ---- CampCMakeBase._configure_cmake ----
    options,      \* self.options.items(): <<name, value>> pairs, in order
    cmakePreset,  \* cmake.definitions as CMake(self) leaves them
    definitions,  \* cmake.definitions handed to cmake.configure
    assigned,     \* the assignments add_cmake_option made, in order
    configured    \* "new", "returned" or "raised"

lazyVars == <<env, cache, methodCalls, fgetCalls, reads, lastResult,
              firstOutcome, preset, tampered, nops>>

lifeVars == <<call, done, failed, outcome, finished, ncalls>>

cudaVars == <<platform, optVersion, optRoot, fsExists, nvccOut,
              sdkRootCache, versionCache, lastSdkRoot, lastVersion,
              lastDiscovery, cudaReads>>

pyVars == <<pyOs, optPython, optWithSystem, pyRuns, sysInclude,
            sysIncludePy, fsFiles, execCache, includeCache, lastExec,
            lastInclude, pyReads>>

confVars == <<options, cmakePreset, definitions, assigned, configured>>

vars == <<lazyVars, lifeVars, cudaVars, pyVars, confVars>>

-----------------------------------------------------------------------------
(* Bounds *)

NumOwners == 2
MaxOps == 3
MaxCalls == 2
MaxCudaReads == 2
MaxPyReads == 2
MaxOptions == 2

-----------------------------------------------------------------------------
(* LazyProperty *)

Owners == 1..NumOwners

\* Two descriptors: one made by the decorator (fget is None), one built
\* with an explicit fget.
Accessors == {"decorated", "with_fget"}

HasFget(a) == a = "with_fget"

\* Python's None.
PyNone == "<None>"

\* Python values a computation can return.
Values == {PyNone, "v1", "v2"}

\* The owner has no attribute under the cache key.
Absent == "<absent>"

\* The computation raises.
Raise == "<raise>"

NoRead == "<noread>"

\* setattr(instance, self.cache_name, result): an instance attribute.
SetAttrOnClass(c, o, a, v) == [p \in Owners |-> [c[p] EXCEPT ![a] = v]]

SetAttr(c, o, a, v) == [c EXCEPT ![o][a] = v]

\* LazyProperty.__get__(instance, owner) for instance # None: `cached` is
\* the attribute under the cache key (Absent when hasattr is False),
\* `computed` is what the computation produces if it is invoked now.
LazyGetNoneIsMissing(cached, computed) ==
    IF cached # Absent /\ cached # PyNone
    THEN [result |-> cached, store |-> cached, called |-> FALSE]
    ELSE IF computed = Raise
         THEN [result |-> Raise, store |-> cached, called |-> TRUE]
         ELSE [result |-> computed, store |-> computed, called |-> TRUE]

LazyGetCachesFailure(cached, computed) ==
    IF cached # Absent
    THEN [result |-> cached, store |-> cached, called |-> FALSE]
    ELSE IF computed = Raise
         THEN [result |-> Raise, store |-> PyNone, called |-> TRUE]
         ELSE [result |-> computed, store |-> computed, called |-> TRUE]

LazyGetIgnoresCache(cached, computed) ==
    IF computed = Raise
    THEN [result |-> Raise, store |-> cached, called |-> TRUE]
    ELSE [result |-> computed, store |-> computed, called |-> TRUE]

LazyGet(cached, computed) ==
    IF cached # Absent
    THEN [result |-> cached, store |-> cached, called |-> FALSE]
    ELSE IF computed = Raise
         THEN [result |-> Raise, store |-> Absent, called |-> TRUE]
         ELSE [result |-> computed, store |-> computed, called |-> TRUE]

LazyInit ==
    /\ env \in Values \cup {Raise}
    /\ cache = [o \in Owners |-> [a \in Accessors |-> Absent]]
    /\ methodCalls = [o \in Owners |-> [a \in Accessors |-> 0]]
    /\ fgetCalls = [o \in Owners |-> [a \in Accessors |-> 0]]
    /\ reads = [o \in Owners |-> [a \in Accessors |-> 0]]
    /\ lastResult = [o \in Owners |-> [a \in Accessors |-> NoRead]]
    /\ firstOutcome = [o \in Owners |-> [a \in Accessors |-> NoRead]]
    /\ preset = [o \in Owners |-> [a \in Accessors |-> FALSE]]
    /\ tampered = [o \in Owners |-> [a \in Accessors |-> FALSE]]
    /\ nops = 0

\* The filesystem or the output of an external tool changes.
EnvChange ==
    /\ \E e \in (Values \cup {Raise}) \ {env} : env' = e
    /\ UNCHANGED <<cache, methodCalls, fgetCalls, reads, lastResult,
                   firstOutcome, preset, tampered, nops>>
    /\ UNCHANGED <<lifeVars, cudaVars, pyVars, confVars>>

\* The values set directly on an owner: None and another value.
DirectValues == {PyNone, "v2"}

\* A value is set directly on the owner under the accessor's cache key.
DirectSet(o, a, v) ==
    /\ nops < MaxOps
    /\ nops' = nops + 1
    /\ cache' = SetAttr(cache, o, a, v)
    /\ IF reads[o][a] = 0
       THEN /\ preset' = [preset EXCEPT ![o][a] = TRUE]
            /\ UNCHANGED tampered
       ELSE /\ tampered' = [tampered EXCEPT ![o][a] = TRUE]
            /\ UNCHANGED preset
    /\ UNCHANGED <<env, methodCalls, fgetCalls, reads, lastResult,
                   firstOutcome>>
    /\ UNCHANGED <<lifeVars, cudaVars, pyVars, confVars>>

\* instance.<accessor>: LazyProperty.__get__(instance, type(instance)).
Read(o, a) ==
    /\ nops < MaxOps
    /\ nops' = nops + 1
    /\ LET g == LazyGet(cache[o][a], env) IN
        /\ cache' = IF g.store = cache[o][a] THEN cache
                    ELSE SetAttr(cache, o, a, g.store)
        /\ methodCalls' =
             IF g.called /\ ~HasFget(a)
             THEN [methodCalls EXCEPT ![o][a] = @ + 1] ELSE methodCalls
        /\ fgetCalls' =
             IF g.called /\ HasFget(a)
             THEN [fgetCalls EXCEPT ![o][a] = @ + 1] ELSE fgetCalls
        /\ lastResult' = [lastResult EXCEPT ![o][a] = g.result]
        /\ firstOutcome' =
             IF reads[o][a] = 0
             THEN [firstOutcome EXCEPT ![o][a] = g.result] ELSE firstOutcome
    /\ reads' = [reads EXCEPT ![o][a] = @ + 1]
    /\ UNCHANGED <<env, preset, tampered>>
    /\ UNCHANGED <<lifeVars, cudaVars, pyVars, confVars>>

\* No owner has been read yet (the LazyProperty state outside Spec).
LazyIdle ==
    /\ env = PyNone
    /\ cache = [o \in Owners |-> [a \in Accessors |-> Absent]]
    /\ methodCalls = [o \in Owners |-> [a \in Accessors |-> 0]]
    /\ fgetCalls = [o \in Owners |-> [a \in Accessors |-> 0]]
    /\ reads = [o \in Owners |-> [a \in Accessors |-> 0]]
    /\ lastResult = [o \in Owners |-> [a \in Accessors |-> NoRead]]
    /\ firstOutcome = [o \in Owners |-> [a \in Accessors |-> NoRead]]
    /\ preset = [o \in Owners |-> [a \in Accessors |-> FALSE]]
    /\ tampered = [o \in Owners |-> [a \in Accessors |-> FALSE]]
    /\ nops = 0

-----------------------------------------------------------------------------
(* CampCMakeBase: build, package, package_info *)

LifecycleMethods == {"build", "package", "package_info"}

NoStep == "<nostep>"

\* The statements of build(), in program order.
BuildStepsBuildFirst ==
    <<"_before_configure", "_before_build", "cmake.build",
      "_configure_cmake", "_after_build">>

BuildSteps ==
    <<"_before_configure", "_configure_cmake", "_before_build",
      "cmake.build", "_after_build">>

\* The statements of package(), in program order.
PackageSteps ==
    <<"_configure_cmake", "_before_package", "cmake.install",
      "_after_package">>

\* The statements of package_info(), in program order.
PackageInfoSteps == <<"cpp_info.libs = collect_libs", "_after_package_info">>

StepsOf(m) ==
    CASE m = "build" -> BuildSteps
      [] m = "package" -> PackageSteps
      [] m = "package_info" -> PackageInfoSteps
      [] OTHER -> <<>>

LifeInit ==
    /\ call = "idle"
    /\ done = <<>>
    /\ failed = NoStep
    /\ outcome = "returned"
    /\ finished = <<>>
    /\ ncalls = 0

\* The host calls build(), package() or package_info() on the recipe.
StartCall(m) ==
    /\ outcome # "running"
    /\ ncalls < MaxCalls
    /\ ncalls' = ncalls + 1
    /\ finished' = IF call = "idle" THEN finished
                   ELSE Append(finished, <<call, outcome>>)
    /\ call' = m
    /\ done' = <<>>
    /\ failed' = NoStep
    /\ outcome' = "running"
    /\ UNCHANGED <<lazyVars, cudaVars, pyVars, confVars>>

\* An exception raised by a statement of a lifecycle method: the method
\* has no try block, so the exception leaves the method.
StepRaisesSwallowed ==
    /\ outcome = "running"
    /\ Len(done) < Len(StepsOf(call))
    /\ failed' = StepsOf(call)[Len(done) + 1]
    /\ done' = Append(done, StepsOf(call)[Len(done) + 1])
    /\ outcome' = IF Len(done') = Len(StepsOf(call))
                  THEN "returned" ELSE "running"
    /\ UNCHANGED <<call, finished, ncalls>>
    /\ UNCHANGED <<lazyVars, cudaVars, pyVars, confVars>>

StepRaises ==
    /\ outcome = "running"
    /\ Len(done) < Len(StepsOf(call))
    /\ failed' = StepsOf(call)[Len(done) + 1]
    /\ outcome' = "raised"
    /\ UNCHANGED <<call, done, finished, ncalls>>
    /\ UNCHANGED <<lazyVars, cudaVars, pyVars, confVars>>

\* The next statement of the running method completes; after the last one
\* the method returns.
StepReturns ==
    /\ outcome = "running"
    /\ Len(done) < Len(StepsOf(call))
    /\ done' = Append(done, StepsOf(call)[Len(done) + 1])
    /\ outcome' = IF Len(done') = Len(StepsOf(call))
                  THEN "returned" ELSE "running"
    /\ UNCHANGED <<call, failed, finished, ncalls>>
    /\ UNCHANGED <<lazyVars, cudaVars, pyVars, confVars>>

-----------------------------------------------------------------------------
(* CampCudaBase: discovery and validation of the CUDA SDK *)

\* get_cuda_version(): the values of the cuda_version option.
get_cuda_version ==
    <<"9.2", "10.0", "10.1", "10.2", "11.0", "11.1", "11.2", "11.4",
      "11.5", "11.6", "11.7", "None">>

\* reversed(s)
Reversed(s) == [i \in 1..Len(s) |-> s[Len(s) + 1 - i]]

IsVersion(v) == v # "None"

\* supported_versions: reversed([v for v in get_cuda_version() if v != 'None'])
SupportedVersionsOldestFirst == SelectSeq(get_cuda_version, IsVersion)

SupportedVersions == Reversed(SelectSeq(get_cuda_version, IsVersion))

Elements(s) == {s[i] : i \in 1..Len(s)}

\* The failures of the CUDA accessors.
ErrUnsupported == "ValueError: Unsupported CUDA SDK Version requested"
ErrNotFound == "ValueError: Could not find CUDA Sdk version"
ErrRequestedFound == "ValueError: CUDA SDK Version requested != found"
ErrValidation == "RuntimeError: No suitable CUDA SDK Root directory found"
ErrInvalidRoot == "ValueError: Invalid CUDA SDK root: None"
ErrRun == "ConanException: Error while executing nvcc"
ErrAttribute == "AttributeError: 'NoneType' has no attribute 'splitlines'"
ErrIndex == "IndexError: list index out of range"

\* Outcome of a call: a returned value or a raised exception, with the
\* filesystem tests and compiler invocations the call made, in order.
Ok(v, p) == [ok |-> TRUE, val |-> v, err |-> "", probes |-> p]
Err(e, p) == [ok |-> FALSE, val |-> PyNone, err |-> e, probes |-> p]

\* The conventional root of a version: "/usr/local/cuda-{0}" on Linux,
\* "C:\Program Files\NVIDIA GPU Computing Toolkit\CUDA\v{}" on Windows.
LinuxTemplate == "/usr/local/cuda-"
WindowsTemplate == "C:\\Program Files\\NVIDIA GPU Computing Toolkit\\CUDA\\v"

RootTemplate(os) == IF os = "windows" THEN WindowsTemplate ELSE LinuxTemplate

ConventionalRoot(os, v) == RootTemplate(os) \o v

\* CUDA_ROOT_DEFAULT
CUDA_ROOT_DEFAULT ==
    IF platform = "windows" THEN WindowsTemplate \o "11.1"
    ELSE IF platform = "linux" THEN LinuxTemplate \o "11.1"
    ELSE PyNone

\* find_cuda_versions for a requested, supported version.
FindRequestedWithFallback(cuda_version) ==
    <<cuda_version>> \o SupportedVersions

FindRequested(cuda_version) == <<cuda_version>>

\* The for loop over find_cuda_versions: st holds cuda_sdk_root,
\* cuda_version_found and the existence tests made so far.
RECURSIVE ProbeRoots(_, _, _, _)
ProbeRoots(versions, i, template, st) ==
    IF i > Len(versions) THEN st
    ELSE LET root == template \o versions[i]
             tested == Append(st.probes, <<"exists", root>>)
         IN  IF root \in fsExists
             THEN [root |-> root, found |-> versions[i], probes |-> tested]
             ELSE ProbeRoots(versions, i + 1, template,
                     [root |-> root, found |-> st.found, probes |-> tested])

\* __cuda_get_sdk_root_and_version(cuda_version)
CudaGetSdkRootAndVersion(cuda_version) ==
    IF cuda_version # PyNone /\ cuda_version \notin Elements(SupportedVersions)
    THEN Err(ErrUnsupported, <<>>)
    ELSE
      LET find == IF cuda_version # PyNone THEN FindRequested(cuda_version)
                  ELSE SupportedVersions
          st0 == [root |-> PyNone, found |-> PyNone, probes |-> <<>>]
          st == IF platform \in {"linux", "windows"}
                THEN ProbeRoots(find, 1, RootTemplate(platform), st0)
                ELSE st0
      IN  IF st.root = PyNone \/ st.found = PyNone
          THEN Err(ErrNotFound, st.probes)
          ELSE Ok(<<st.root, st.found>>, st.probes)

\* A line of compiler output: its text is abstracted to whether it is blank
\* and to the token the pattern ", release <token>," captures in it
\* (NoRelease: the pattern does not match).
NoRelease == "<no release>"
TextLine == [blank |-> FALSE, release |-> NoRelease]
BlankLine == [blank |-> TRUE, release |-> NoRelease]
ReleaseLine(v) == [blank |-> FALSE, release |-> v]

\* The command cannot be run or exits with an error.
RunFails == "<run fails>"

\* str.strip() on the captured output: leading and trailing blank lines go.
RECURSIVE Strip(_)
Strip(out) ==
    IF out = <<>> THEN out
    ELSE IF Head(out).blank THEN Strip(Tail(out))
    ELSE IF out[Len(out)].blank THEN Strip(SubSeq(out, 1, Len(out) - 1))
    ELSE out

\* __cuda_run_nvcc_command(cuda_sdk_root, "--version")
CudaRunNvccCommand(cuda_sdk_root) ==
    IF cuda_sdk_root = PyNone THEN Err(ErrInvalidRoot, <<>>)
    ELSE LET p == << <<"nvcc", cuda_sdk_root>> >> IN
         IF cuda_sdk_root \notin DOMAIN nvccOut
            \/ nvccOut[cuda_sdk_root] = RunFails THEN Err(ErrRun, p)
         ELSE LET result == Strip(nvccOut[cuda_sdk_root]) IN
              IF result # <<>> THEN Ok(result, p) ELSE Ok(PyNone, p)

\* The index of result.splitlines()[3], counted from 1.
BannerLine == 4

\* __cuda_get_sdk_version(cuda_sdk_root)
CudaGetSdkVersion(cuda_sdk_root) ==
    LET r == CudaRunNvccCommand(cuda_sdk_root) IN
    IF ~r.ok THEN r
    ELSE IF r.val = PyNone THEN Err(ErrAttribute, r.probes)
    ELSE IF Len(r.val) < BannerLine THEN Err(ErrIndex, r.probes)
    ELSE IF r.val[BannerLine].release # NoRelease
         THEN Ok(r.val[BannerLine].release, r.probes)
         ELSE Ok(PyNone, r.probes)

\* __cuda_check_sdk_version(cuda_sdk_root, cuda_version)
CudaCheckSdkVersionAlwaysTrue(cuda_sdk_root, cuda_version) ==
    IF cuda_sdk_root = PyNone THEN Err(ErrInvalidRoot, <<>>)
    ELSE LET r == CudaGetSdkVersion(cuda_sdk_root) IN
         IF ~r.ok THEN r ELSE Ok(TRUE, r.probes)

CudaCheckSdkVersion(cuda_sdk_root, cuda_version) ==
    IF cuda_sdk_root = PyNone THEN Err(ErrInvalidRoot, <<>>)
    ELSE LET r == CudaGetSdkVersion(cuda_sdk_root) IN
         IF ~r.ok THEN r
         ELSE IF r.val # cuda_version THEN Ok(FALSE, r.probes)
         ELSE Ok(TRUE, r.probes)

\* Lines 452-456 of _cuda_sdk_root: the check of the root against the
\* version, after the probes p.
CudaValidateRoot(cuda_root, cuda_version, p) ==
    IF cuda_version # PyNone
    THEN LET c == CudaCheckSdkVersion(cuda_root, cuda_version) IN
         IF ~c.ok THEN Err(c.err, p \o c.probes)
         ELSE IF ~c.val THEN Err(ErrValidation, p \o c.probes)
         ELSE Ok(cuda_root, p \o c.probes)
    ELSE Ok(cuda_root, p)

\* cuda_version and cuda_root of _cuda_sdk_root: the options, "ANY" read
\* as None.
RequestedVersion == IF optVersion = "ANY" THEN PyNone ELSE optVersion
RequestedRoot == IF optRoot = "ANY" THEN PyNone ELSE optRoot

\* A call that was not made.
NotRead == [ok |-> FALSE, val |-> PyNone, err |-> NoRead, probes |-> <<>>]

\* Line 443: the discovery made by _cuda_sdk_root when no root is given.
CudaSdkRootDiscovery ==
    IF RequestedRoot = PyNone
    THEN CudaGetSdkRootAndVersion(RequestedVersion)
    ELSE NotRead

\* The body of _cuda_sdk_root.
CudaSdkRootChecksRequestedOnly ==
    IF RequestedRoot = PyNone
    THEN LET r == CudaSdkRootDiscovery IN
         IF ~r.ok THEN r
         ELSE IF RequestedVersion # PyNone /\ r.val[2] # RequestedVersion
              THEN Err(ErrRequestedFound, r.probes)
         ELSE CudaValidateRoot(
                IF r.val[1] = PyNone THEN CUDA_ROOT_DEFAULT ELSE r.val[1],
                RequestedVersion,
                r.probes)
    ELSE CudaValidateRoot(RequestedRoot, RequestedVersion, <<>>)

CudaSdkRoot ==
    IF RequestedRoot = PyNone
    THEN LET r == CudaSdkRootDiscovery IN
         IF ~r.ok THEN r
         ELSE IF RequestedVersion # PyNone /\ r.val[2] # RequestedVersion
              THEN Err(ErrRequestedFound, r.probes)
         ELSE CudaValidateRoot(
                IF r.val[1] = PyNone THEN CUDA_ROOT_DEFAULT ELSE r.val[1],
                IF RequestedVersion = PyNone THEN r.val[2]
                ELSE RequestedVersion,
                r.probes)
    ELSE CudaValidateRoot(RequestedRoot, RequestedVersion, <<>>)

\* The body of _cuda_version, given the outcome of reading _cuda_sdk_root.
CudaVersion(root) ==
    IF ~root.ok THEN root
    ELSE IF root.val = PyNone THEN Ok(PyNone, root.probes)
    ELSE LET v == CudaGetSdkVersion(root.val) IN
         IF v.ok THEN Ok(v.val, root.probes \o v.probes)
         ELSE Err(v.err, root.probes \o v.probes)

\* What a computation hands to LazyProperty.__get__.
Computed(r) == IF r.ok THEN r.val ELSE Raise

\* The outcome of a read through LazyProperty: a cache hit makes no probe.
ReadOutcome(g, r) == IF g.called THEN r ELSE Ok(g.result, <<>>)

\* The versions whose conventional roots may exist on the machine; "11.8"
\* is not a value of get_cuda_version().
InstalledVersions == {"11.7", "11.5", "11.8"}

\* An explicitly configured SDK root.
CustomRoot == "/opt/cuda"

\* The requests made through the options cuda_version and cuda_root.
RequestedVersions == {"ANY", "11.7", "11.5", "9.9", "None"}
RequestedRoots == {"ANY", CustomRoot}

\* The banner of nvcc --version for a release: the fourth line names it.
Banner(v) == <<TextLine, TextLine, TextLine, ReleaseLine(v), TextLine>>

\* What a compiler at an existing root may print.
NvccOutputs ==
    { RunFails,
      <<>>,
      <<TextLine, ReleaseLine("11.7")>>,
      <<TextLine, TextLine, ReleaseLine("11.7"), TextLine>>,
      <<BlankLine>> \o Banner("11.7") \o <<BlankLine>>,
      Banner("11.7"),
      Banner("11.5") }

Platforms == {"linux", "windows", "macos"}

\* The roots a compiler may be installed at on this machine.
MachineRoots(os) == {ConventionalRoot(os, v) : v \in InstalledVersions}
                    \cup {CustomRoot}

\* What the compiler at root r may do: nothing can be run at a root that
\* does not exist, and the SDK of the release after the newest supported
\* one prints its own banner.
OutputsAt(r, os, exists) ==
    IF r \notin exists THEN {RunFails}
    ELSE IF r = ConventionalRoot(os, "11.8") THEN {Banner("11.8")}
    ELSE NvccOutputs

CudaEnvironment ==
    /\ platform \in Platforms
    /\ optVersion \in RequestedVersions
    /\ optRoot \in RequestedRoots
    /\ \E installed \in SUBSET InstalledVersions :
         fsExists = {ConventionalRoot(platform, v) : v \in installed}
                    \cup {CustomRoot}
    /\ \E o1 \in OutputsAt(CustomRoot, platform, fsExists),
          o2 \in OutputsAt(ConventionalRoot(platform, "11.7"), platform, fsExists),
          o3 \in OutputsAt(ConventionalRoot(platform, "11.5"), platform, fsExists) :
         nvccOut = [r \in MachineRoots(platform) |->
                      IF r = CustomRoot THEN o1
                      ELSE IF r = ConventionalRoot(platform, "11.7") THEN o2
                      ELSE IF r = ConventionalRoot(platform, "11.5") THEN o3
                      ELSE CHOOSE o \in OutputsAt(r, platform, fsExists) : TRUE]

CudaInit ==
    /\ CudaEnvironment
    /\ sdkRootCache = Absent
    /\ versionCache = Absent
    /\ lastSdkRoot = NotRead
    /\ lastVersion = NotRead
    /\ lastDiscovery = NotRead
    /\ cudaReads = 0

\* The CUDA state outside CudaSpec: a Linux machine without an SDK.
CudaIdle ==
    /\ platform = "linux"
    /\ optVersion = "ANY"
    /\ optRoot = "ANY"
    /\ fsExists = {}
    /\ nvccOut = [r \in MachineRoots("linux") |-> RunFails]
    /\ sdkRootCache = Absent
    /\ versionCache = Absent
    /\ lastSdkRoot = NotRead
    /\ lastVersion = NotRead
    /\ lastDiscovery = NotRead
    /\ cudaReads = 0

\* self._cuda_sdk_root
ReadCudaSdkRoot ==
    /\ cudaReads < MaxCudaReads
    /\ cudaReads' = cudaReads + 1
    /\ \E r \in {CudaSdkRoot} :
       LET g == LazyGet(sdkRootCache, Computed(r))
       IN  /\ sdkRootCache' = g.store
           /\ lastSdkRoot' = ReadOutcome(g, r)
           /\ lastDiscovery' = IF g.called /\ RequestedRoot = PyNone
                               THEN CudaSdkRootDiscovery ELSE lastDiscovery
    /\ UNCHANGED <<platform, optVersion, optRoot, fsExists, nvccOut,
                   versionCache, lastVersion>>
    /\ UNCHANGED <<lazyVars, lifeVars, pyVars, confVars>>

\* self._cuda_version, which reads self._cuda_sdk_root.
ReadCudaVersion ==
    /\ cudaReads < MaxCudaReads
    /\ cudaReads' = cudaReads + 1
    /\ \E r \in {CudaSdkRoot} :
       \E v \in {CudaVersion(ReadOutcome(LazyGet(sdkRootCache, Computed(r)), r))} :
       LET g == LazyGet(sdkRootCache, Computed(r))
           h == LazyGet(versionCache, Computed(v))
       IN  IF versionCache # Absent
           THEN /\ lastVersion' = ReadOutcome(h, v)
                /\ UNCHANGED <<sdkRootCache, versionCache, lastSdkRoot,
                               lastDiscovery>>
           ELSE /\ sdkRootCache' = g.store
                /\ lastSdkRoot' = ReadOutcome(g, r)
                /\ lastDiscovery' = IF g.called /\ RequestedRoot = PyNone
                                    THEN CudaSdkRootDiscovery
                                    ELSE lastDiscovery
                /\ versionCache' = h.store
                /\ lastVersion' = ReadOutcome(h, v)
    /\ UNCHANGED <<platform, optVersion, optRoot, fsExists, nvccOut>>
    /\ UNCHANGED <<lazyVars, lifeVars, pyVars, confVars>>

-----------------------------------------------------------------------------
(* CampPythonBase: the interpreter and its header directory *)

ErrPyNoCommand == "ValueError: Python interpreter not found"
ErrPyRun == "RuntimeError: Error while executing python command."

\* os.path.join(a, b)
JoinPath(a, b) == a \o "/" \o b

\* The command of __python_get_interpreter_fullpath when none is given.
DefaultPythonCommand == IF pyOs = "windows" THEN "python" ELSE "python3"

\* __python_run_command(python_exec, command): the trimmed output, or the
\* exception of self.run; `output` is what the command prints.
PythonRunCommand(python_exec, command, output) ==
    IF ~pyRuns \/ output = RunFails
    THEN Err(ErrRun, << <<"run", command>> >>)
    ELSE Ok(output, << <<"run", command>> >>)

\* __python_get_interpreter_fullpath(command, use_system_python)
PythonGetInterpreterFullpath(command, use_system_python) ==
    IF command = PyNone /\ ~use_system_python THEN Err(ErrPyNoCommand, <<>>)
    ELSE LET cmd == IF command = PyNone THEN DefaultPythonCommand
                    ELSE command
             r == PythonRunCommand(cmd, "sys.executable",
                                   JoinPath("/usr/bin", cmd))
         IN  IF r.ok THEN r ELSE Err(ErrPyRun, r.probes)

\* The body of _python_exec.
PythonExec ==
    PythonGetInterpreterFullpath(
        IF optPython # Absent THEN optPython ELSE PyNone,
        IF optWithSystem # Absent THEN optWithSystem = "True" ELSE TRUE)

\* __python_get_sysconfig_path / __python_get_sysconfig_var: the read of
\* self._python_exec (outcome e) and the command run inside one try block,
\* every exception replaced by a RuntimeError.
PythonGetSysconfig(e, name, output) ==
    IF ~e.ok THEN Err(ErrPyRun, e.probes)
    ELSE LET r == PythonRunCommand(e.val, name, output) IN
         IF r.ok THEN Ok(r.val, e.probes \o r.probes)
         ELSE Err(ErrPyRun, e.probes \o r.probes)

\* The marker file of a header directory.
MarkerFile == "pyconfig.h"

\* The for loop of _python_include_dir over the candidates from index i,
\* after the probes p.
RECURSIVE PythonIncludeLoop(_, _, _)
PythonIncludeLoop(candidates, i, p) ==
    IF i > Len(candidates) THEN Ok(PyNone, p)
    ELSE LET file == JoinPath(candidates[i], MarkerFile)
             q == Append(p, <<"exists", file>>)
         IN  IF file \in fsFiles THEN Ok(candidates[i], q)
             ELSE PythonIncludeLoop(candidates, i + 1, q)

\* The body of _python_include_dir, given the outcomes e1 and e2 of the two
\* reads of _python_exec it makes: both candidates are queried before the
\* loop starts.
PythonIncludeDir(e1, e2) ==
    LET c1 == PythonGetSysconfig(e1, "get_path('include')", sysInclude) IN
    IF ~c1.ok THEN c1
    ELSE LET c2 == PythonGetSysconfig(e2, "get_config_var('INCLUDEPY')",
                                      sysIncludePy) IN
         IF ~c2.ok THEN Err(c2.err, c1.probes \o c2.probes)
         ELSE PythonIncludeLoop(<<c1.val, c2.val>>, 1,
                                c1.probes \o c2.probes)

\* The header directories an interpreter may name.
IncludeDirs == {"/usr/include/python3.8", "/opt/python/include"}

PyEnvironment ==
    /\ pyOs \in {"windows", "windows_subsystem", "posix"}
    /\ optPython \in {Absent, "python3.8"}
    /\ optWithSystem \in {Absent, "True", "False"}
    /\ pyRuns \in BOOLEAN
    /\ sysInclude \in IncludeDirs \cup {RunFails}
    /\ sysIncludePy \in IncludeDirs \cup {RunFails}
    /\ fsFiles \in SUBSET {JoinPath(d, MarkerFile) : d \in IncludeDirs}

PyInit ==
    /\ PyEnvironment
    /\ execCache = Absent
    /\ includeCache = Absent
    /\ lastExec = NotRead
    /\ lastInclude = NotRead
    /\ pyReads = 0

\* The interpreter state outside PythonSpec: no interpreter, no headers.
PyIdle ==
    /\ pyOs = "posix"
    /\ optPython = Absent
    /\ optWithSystem = Absent
    /\ pyRuns = FALSE
    /\ sysInclude = RunFails
    /\ sysIncludePy = RunFails
    /\ fsFiles = {}
    /\ execCache = Absent
    /\ includeCache = Absent
    /\ lastExec = NotRead
    /\ lastInclude = NotRead
    /\ pyReads = 0

\* self._python_exec
ReadPythonExec ==
    /\ pyReads < MaxPyReads
    /\ pyReads' = pyReads + 1
    /\ LET r == PythonExec
           g == LazyGet(execCache, Computed(r))
       IN  /\ execCache' = g.store
           /\ lastExec' = ReadOutcome(g, r)
    /\ UNCHANGED <<pyOs, optPython, optWithSystem, pyRuns, sysInclude,
                   sysIncludePy, fsFiles, includeCache, lastInclude>>
    /\ UNCHANGED <<lazyVars, lifeVars, cudaVars, confVars>>

\* self._python_include_dir, which reads self._python_exec once for each
\* candidate it queries.
ReadPythonIncludeDir ==
    /\ pyReads < MaxPyReads
    /\ pyReads' = pyReads + 1
    /\ LET r == PythonExec
           g1 == LazyGet(execCache, Computed(r))
           e1 == ReadOutcome(g1, r)
           g2 == LazyGet(g1.store, Computed(r))
           e2 == ReadOutcome(g2, r)
           d == PythonIncludeDir(e1, e2)
           h == LazyGet(includeCache, Computed(d))
       IN  IF includeCache # Absent
           THEN /\ lastInclude' = ReadOutcome(h, d)
                /\ UNCHANGED <<execCache, includeCache, lastExec>>
           ELSE /\ execCache' = IF e1.ok THEN g2.store ELSE g1.store
                /\ lastExec' = IF e1.ok THEN e2 ELSE e1
                /\ includeCache' = h.store
                /\ lastInclude' = ReadOutcome(h, d)
    /\ UNCHANGED <<pyOs, optPython, optWithSystem, pyRuns, sysInclude,
                   sysIncludePy, fsFiles>>
    /\ UNCHANGED <<lazyVars, lifeVars, cudaVars, confVars>>

-----------------------------------------------------------------------------
(* CampCMakeBase._configure_cmake *)

\* Names are sequences of characters.
LowerCase ==
    <<"a", "b", "c", "d", "e", "f", "g", "h", "i", "j", "k", "l", "m",
      "n", "o", "p", "q", "r", "s", "t", "u", "v", "w", "x", "y", "z">>

UpperCase ==
    <<"A", "B", "C", "D", "E", "F", "G", "H", "I", "J", "K", "L", "M",
      "N", "O", "P", "Q", "R", "S", "T", "U", "V", "W", "X", "Y", "Z">>

\* str.upper() on one character, then on a name.
UpperChar(c) ==
    IF \E i \in 1..Len(LowerCase) : LowerCase[i] = c
    THEN UpperCase[CHOOSE i \in 1..Len(LowerCase) : LowerCase[i] = c]
    ELSE c

Upper(name) == [i \in 1..Len(name) |-> UpperChar(name[i])]

\* Option values: booleans, strings and None.
BoolVal(b) == [type |-> "bool", b |-> b, s |-> ""]
StrVal(t) == [type |-> "str", b |-> FALSE, s |-> t]
NoneVal == [type |-> "none", b |-> FALSE, s |-> ""]

\* "{}".format(value)
Format(value) ==
    IF value.type = "bool" THEN (IF value.b THEN "True" ELSE "False")
    ELSE IF value.type = "none" THEN "None"
    ELSE value.s

\* var_value of add_cmake_option.
VarValueNoOff(value) ==
    IF Format(value) = "True" THEN "ON" ELSE Format(value)

VarValue(value) ==
    IF Format(value) = "True" THEN "ON"
    ELSE IF Format(value) = "False" THEN "OFF"
    ELSE Format(value)

\* d[name] = value on a dictionary.
SetItem(d, name, value) ==
    [n \in DOMAIN d \cup {name} |-> IF n = name THEN value ELSE d[n]]

\* add_cmake_option(option, value) on cmake.definitions d.
AddCMakeOption(d, option, value) == SetItem(d, Upper(option), VarValue(value))

\* The for loop of _configure_cmake over the items from index i: the
\* definitions and the assignments made.
RECURSIVE ConfigureLoop(_, _, _)
ConfigureLoop(items, i, st) ==
    IF i > Len(items) THEN st
    ELSE ConfigureLoop(items, i + 1,
            [defs |-> AddCMakeOption(st.defs, items[i][1], items[i][2]),
             log |-> Append(st.log,
                       <<Upper(items[i][1]), VarValue(items[i][2])>>)])

\* The option names a recipe may declare: "shared", "Shared" and "fPIC".
OptionNames ==
    { <<"s", "h", "a", "r", "e", "d">>,
      <<"S", "h", "a", "r", "e", "d">>,
      <<"f", "P", "I", "C">> }

OptionValues ==
    {BoolVal(TRUE), BoolVal(FALSE), StrVal("true"), StrVal("Release"), NoneVal}

\* The variable CMake(self) defines before the options are added.
BuildTypeVar ==
    <<"C", "M", "A", "K", "E", "_", "B", "U", "I", "L", "D", "_",
      "T", "Y", "P", "E">>

EmptyDict == [n \in {} |-> ""]

\* The items of an options object: distinct names, any values, any order.
OptionItems ==
    {it \in UNION {[1..n -> OptionNames \X OptionValues] : n \in 0..MaxOptions} :
        \A i, j \in 1..Len(it) : i # j => it[i][1] # it[j][1]}

ConfInit ==
    /\ options \in OptionItems
    /\ cmakePreset \in {EmptyDict, SetItem(EmptyDict, BuildTypeVar, "Release")}
    /\ definitions = EmptyDict
    /\ assigned = <<>>
    /\ configured = "new"

\* The recipe state outside ConfigureSpec: no option declared.
ConfIdle ==
    /\ options = <<>>
    /\ cmakePreset = EmptyDict
    /\ definitions = EmptyDict
    /\ assigned = <<>>
    /\ configured = "new"

\* self._configure_cmake(); cmake.configure returns or raises.
ConfigureCMake(raises) ==
    /\ configured = "new"
    /\ LET st == ConfigureLoop(options, 1,
                    [defs |-> cmakePreset, log |-> <<>>])
       IN  /\ definitions' = st.defs
           /\ assigned' = st.log
    /\ configured' = IF raises THEN "raised" ELSE "returned"
    /\ UNCHANGED <<options, cmakePreset>>
    /\ UNCHANGED <<lazyVars, lifeVars, cudaVars, pyVars>>

-----------------------------------------------------------------------------
(* Specifications *)

\* Reads and direct sets of LazyProperty accessors on a few owners.
Init == LazyInit /\ LifeInit /\ CudaIdle /\ PyIdle /\ ConfIdle

Next ==
    \/ EnvChange
    \/ \E o \in Owners, a \in Accessors, v \in DirectValues : DirectSet(o, a, v)
    \/ \E o \in Owners, a \in Accessors : Read(o, a)

Spec == Init /\ [][Next]_vars

\* Lifecycle calls on one recipe.
LifecycleInit == LazyIdle /\ LifeInit /\ CudaIdle /\ PyIdle /\ ConfIdle

LifecycleNext ==
    \/ \E m \in LifecycleMethods : StartCall(m)
    \/ StepReturns
    \/ StepRaises

LifecycleSpec == LifecycleInit /\ [][LifecycleNext]_vars

\* Reads of the CUDA accessors on one recipe, for every request and machine.
CudaSpecInit == LazyIdle /\ LifeInit /\ CudaInit /\ PyIdle /\ ConfIdle

CudaSpecNext ==
    \/ ReadCudaSdkRoot
    \/ ReadCudaVersion

CudaSpec == CudaSpecInit /\ [][CudaSpecNext]_vars

\* Reads of the interpreter accessors on one recipe, for every machine.
PythonSpecInit == LazyIdle /\ LifeInit /\ CudaIdle /\ PyInit /\ ConfIdle

PythonSpecNext ==
    \/ ReadPythonExec
    \/ ReadPythonIncludeDir

PythonSpec == PythonSpecInit /\ [][PythonSpecNext]_vars

\* The configure step, for every set of options.
ConfigureSpecInit == LazyIdle /\ LifeInit /\ CudaIdle /\ PyIdle /\ ConfInit

ConfigureSpecNext ==
    \/ ConfigureCMake(FALSE)
    \/ ConfigureCMake(TRUE)

ConfigureSpec == ConfigureSpecInit /\ [][ConfigureSpecNext]_vars

-----------------------------------------------------------------------------
(* Claims about LazyProperty *)

\* Invocations of the computation of accessor a on owner o.
Calls(o, a) == methodCalls[o][a] + fgetCalls[o][a]

\* The step is a read of accessor a on owner o.
IsRead(o, a) == reads'[o][a] = reads[o][a] + 1

\* C1: when the first read of an accessor on an owner computed a value
\* (None included) and the cache key was never set directly, the
\* computation (self.method for a decorated accessor, self.fget when one was
\* supplied) has been invoked exactly once, and the latest read returned
\* the value of that first computation, whatever the external state is now.
C1_ComputedOnce ==
    \A o \in Owners, a \in Accessors :
        (firstOutcome[o][a] \in Values /\ ~preset[o][a] /\ ~tampered[o][a])
        => /\ Calls(o, a) = 1
           /\ (~HasFget(a) => methodCalls[o][a] = 1)
           /\ lastResult[o][a] = firstOutcome[o][a]
           /\ cache[o][a] = firstOutcome[o][a]

\* C1 witness: a None result was read again after the external state
\* changed to another value.
C1_Witness ==
    \E o \in Owners :
        /\ firstOutcome[o]["decorated"] = PyNone
        /\ reads[o]["decorated"] >= 2
        /\ lastResult[o]["decorated"] = PyNone
        /\ env = "v1"
        /\ ~preset[o]["decorated"] /\ ~tampered[o]["decorated"]

\* C2: a read whose computation raises returns the failure and leaves the
\* cache key absent; the read after a failed read invokes the computation
\* again, and caches its value when it succeeds.
C2_FailureNotCached ==
    [][\A o \in Owners, a \in Accessors :
        IsRead(o, a) =>
          /\ (cache[o][a] = Absent /\ env = Raise)
                => /\ lastResult'[o][a] = Raise
                   /\ cache'[o][a] = Absent
          /\ (lastResult[o][a] = Raise /\ ~tampered[o][a])
                => /\ Calls(o, a)' = Calls(o, a) + 1
                   /\ (env # Raise => /\ cache'[o][a] = env
                                      /\ lastResult'[o][a] = env)
                   /\ (env = Raise => cache'[o][a] = Absent)]_vars

\* C2 witness: the first read failed, a later read succeeded and its value
\* is cached after two invocations.
C2_Witness ==
    \E o \in Owners, a \in Accessors :
        /\ firstOutcome[o][a] = Raise
        /\ lastResult[o][a] \in Values
        /\ cache[o][a] = lastResult[o][a]
        /\ Calls(o, a) = 2
        /\ ~tampered[o][a]

\* C3: when the cache key was set directly before the first read (and not
\* set again after a read), the computation is never invoked for that owner
\* and every read returns the value that was set.
C3_PresetWins ==
    \A o \in Owners, a \in Accessors :
        (preset[o][a] /\ ~tampered[o][a])
        => /\ Calls(o, a) = 0
           /\ cache[o][a] \in Values
           /\ (reads[o][a] > 0 => /\ lastResult[o][a] = cache[o][a]
                                  /\ firstOutcome[o][a] = cache[o][a])

\* C3 witness: a preset value was read twice while the computation would
\* have produced something else.
C3_Witness ==
    \E o \in Owners, a \in Accessors :
        /\ preset[o][a] /\ ~tampered[o][a]
        /\ reads[o][a] >= 2
        /\ lastResult[o][a] = "v2"
        /\ env = "v1"

\* C4: a read on owner o changes no cache entry of another owner, and a
\* read of an accessor whose key is absent on o computes afresh for o,
\* whatever the other owners have cached.
C4_PerOwner ==
    [][\A o \in Owners, a \in Accessors :
        IsRead(o, a) =>
          /\ \A p \in Owners \ {o} : cache'[p] = cache[p]
          /\ \A b \in Accessors \ {a} : cache'[o][b] = cache[o][b]
          /\ cache[o][a] = Absent
                => /\ Calls(o, a)' = Calls(o, a) + 1
                   /\ lastResult'[o][a] = env]_vars

\* C4 witness: two owners hold different computed values of one accessor.
C4_Witness ==
    \E a \in Accessors :
        /\ cache[1][a] = "v1" /\ cache[2][a] = "v2"
        /\ Calls(1, a) = 1 /\ Calls(2, a) = 1
        /\ \A o \in Owners : ~preset[o][a] /\ ~tampered[o][a]

-----------------------------------------------------------------------------
(* Claims about the lifecycle *)

\* Step s ran to completion in the current call at position i.
RanAt(s, i) == i \in 1..Len(done) /\ done[i] = s

\* C5: the steps of a call run in the fixed order: build() runs
\* _before_configure, configure, _before_build, the native build,
\* _after_build; package() runs configure, _before_package, the native
\* install, _after_package; package_info() assigns the collected libraries
\* and then runs _after_package_info. A native build or install is always
\* preceded by a configure step of the same call.
C5_FixedOrder ==
    /\ call = "build" =>
         \E n \in 0..Len(done) : done = SubSeq(
            <<"_before_configure", "_configure_cmake", "_before_build",
              "cmake.build", "_after_build">>, 1, n)
    /\ call = "package" =>
         \E n \in 0..Len(done) : done = SubSeq(
            <<"_configure_cmake", "_before_package", "cmake.install",
              "_after_package">>, 1, n)
    /\ call = "package_info" =>
         \E n \in 0..Len(done) : done = SubSeq(
            <<"cpp_info.libs = collect_libs", "_after_package_info">>, 1, n)
    /\ \A i \in 1..Len(done) :
         done[i] \in {"cmake.build", "cmake.install"}
            => \E j \in 1..(i - 1) : done[j] = "_configure_cmake"
    /\ (outcome = "returned" /\ call # "idle") => done = StepsOf(call)

\* C5 witness: build() returned after package() returned.
C5_Witness ==
    /\ call = "build" /\ outcome = "returned"
    /\ Len(done) = Len(BuildSteps)
    /\ RanAt("_configure_cmake", Len(done) - 3)
    /\ RanAt("cmake.build", Len(done) - 1)
    /\ finished = << <<"package", "returned">> >>

\* C6: when a step of a call raises, the call ends with the failure: the
\* steps before the failed one are the only ones that ran, the failed step
\* did not complete, and nothing more runs in that call (the next step of
\* the model is another call).
C6_FailureAborts ==
    [][/\ outcome' = "raised" =>
            /\ failed' = StepsOf(call')[Len(done') + 1]
            /\ \A i \in 1..Len(done') : done'[i] # failed'
       /\ outcome = "raised" =>
            /\ ncalls' = ncalls + 1
            /\ finished' = Append(finished, <<call, "raised">>)
       /\ failed # NoStep => outcome = "raised"]_vars

\* C6 witness: the native build raised in build(): _after_build did not run.
C6_Witness ==
    /\ call = "build" /\ outcome = "raised"
    /\ failed = "cmake.build"
    /\ Len(done) = Len(BuildSteps) - 2
    /\ \A i \in 1..Len(done) : done[i] # "_after_build"

-----------------------------------------------------------------------------
(* Claims about the CUDA SDK discovery *)

\* The supported versions, newest first.
NewestFirst ==
    <<"11.7", "11.6", "11.5", "11.4", "11.2", "11.1", "11.0", "10.2",
      "10.1", "10.0", "9.2">>

\* The release the compiler at a root reports on the banner line.
Reported(root) ==
    IF root \notin DOMAIN nvccOut \/ nvccOut[root] = RunFails THEN NoRelease
    ELSE LET out == Strip(nvccOut[root]) IN
         IF Len(out) < BannerLine THEN NoRelease
         ELSE out[BannerLine].release

\* The roots at which a call invoked the compiler.
NvccRoots(r) ==
    {r.probes[i][2] : i \in {j \in 1..Len(r.probes) : r.probes[j][1] = "nvcc"}}

\* The existence tests a call made.
ExistsTests(r) ==
    {r.probes[i][2] : i \in {j \in 1..Len(r.probes) : r.probes[j][1] = "exists"}}

\* C7: a read of _cuda_sdk_root with a requested version outside the
\* supported enumeration fails with the unsupported-version error, having
\* made no existence test and no compiler invocation, whether or not a
\* root is requested.
C7_UnsupportedRejectedFirst ==
    (optVersion \notin ({"ANY"} \cup {NewestFirst[i] : i \in 1..Len(NewestFirst)})
        /\ lastSdkRoot # NotRead)
    => /\ ~lastSdkRoot.ok
       /\ lastSdkRoot.err = ErrUnsupported
       /\ lastSdkRoot.probes = <<>>

\* C8: a read of _cuda_sdk_root that invoked the compiler at a root where
\* it reports a release other than the expected one (the requested version,
\* or the discovered one when none is requested) fails with the validation
\* error; and a root returned for a requested version is one whose compiler
\* reports exactly that version.
C8_MismatchFails ==
    /\ \A root \in NvccRoots(lastSdkRoot) :
         LET expected ==
               IF RequestedVersion # PyNone THEN RequestedVersion
               ELSE lastDiscovery.val[2]
         IN (Reported(root) # NoRelease /\ Reported(root) # expected)
            => /\ ~lastSdkRoot.ok
               /\ lastSdkRoot.err = ErrValidation
               /\ sdkRootCache = Absent
    /\ (sdkRootCache # Absent /\ RequestedVersion # PyNone)
         => Reported(sdkRootCache) = RequestedVersion
    /\ (lastSdkRoot.ok /\ RequestedVersion # PyNone)
         => Reported(lastSdkRoot.val) = RequestedVersion

\* C8 witness: version "11.5" requested against an explicit root whose
\* compiler reports "11.7": the read failed with the validation error.
C8_Witness ==
    /\ optVersion = "11.5" /\ optRoot = CustomRoot
    /\ Reported(CustomRoot) = "11.7"
    /\ lastSdkRoot.err = ErrValidation
    /\ NvccRoots(lastSdkRoot) = {CustomRoot}

\* C9: with no version and no root requested on Linux or Windows, the
\* discovery tests the conventional roots newest first, stops at the first
\* that exists and returns it with its version; when none exists it has
\* tested every supported version and fails with SDK-not-found. (No root
\* is conventional on another platform: nothing is tested there.)
C9_NewestFirst ==
    (optVersion = "ANY" /\ optRoot = "ANY" /\ lastDiscovery # NotRead)
    => LET tests == lastDiscovery.probes
           k == Len(tests)
           existing == {i \in 1..Len(NewestFirst) :
                          ConventionalRoot(platform, NewestFirst[i]) \in fsExists}
       IN IF platform \notin {"linux", "windows"}
          THEN k = 0 /\ ~lastDiscovery.ok /\ lastDiscovery.err = ErrNotFound
          ELSE
          /\ k \in 1..Len(NewestFirst)
          /\ \A i \in 1..k :
               tests[i] = <<"exists", ConventionalRoot(platform, NewestFirst[i])>>
          /\ \A i \in 1..(k - 1) : tests[i][2] \notin fsExists
          /\ IF existing # {}
             THEN /\ lastDiscovery.ok
                  /\ k \in existing
                  /\ \A i \in existing : k <= i
                  /\ lastDiscovery.val =
                       <<ConventionalRoot(platform, NewestFirst[k]), NewestFirst[k]>>
             ELSE /\ ~lastDiscovery.ok
                  /\ lastDiscovery.err = ErrNotFound
                  /\ k = Len(NewestFirst)

\* C9 witness: the roots of 11.5 and 11.7 exist and the discovery returned
\* 11.7 after a single test.
C9_Witness ==
    /\ optVersion = "ANY" /\ optRoot = "ANY" /\ platform = "linux"
    /\ {ConventionalRoot("linux", "11.5"), ConventionalRoot("linux", "11.7")}
          \subseteq fsExists
    /\ lastDiscovery.ok
    /\ lastDiscovery.val = <<"/usr/local/cuda-11.7", "11.7">>
    /\ Len(lastDiscovery.probes) = 1

\* C10: with a supported version requested and no root given on Linux or
\* Windows, the discovery tests the conventional root of that version and
\* no other; it fails with SDK-not-found when that root does not exist,
\* whatever other roots exist, and otherwise returns that root with that
\* version. With no version requested and no root existing it fails with
\* SDK-not-found after testing more than one candidate.
C10_NoFallback ==
    /\ (optVersion \in {NewestFirst[i] : i \in 1..Len(NewestFirst)}
          /\ optRoot = "ANY" /\ lastDiscovery # NotRead
          /\ platform \in {"linux", "windows"})
       => /\ lastDiscovery.probes =
               << <<"exists", ConventionalRoot(platform, optVersion)>> >>
          /\ IF ConventionalRoot(platform, optVersion) \in fsExists
             THEN /\ lastDiscovery.ok
                  /\ lastDiscovery.val =
                       <<ConventionalRoot(platform, optVersion), optVersion>>
             ELSE /\ ~lastDiscovery.ok
                  /\ lastDiscovery.err = ErrNotFound
          /\ lastSdkRoot.ok
               => lastSdkRoot.val = ConventionalRoot(platform, optVersion)
    /\ (optVersion = "ANY" /\ optRoot = "ANY" /\ lastDiscovery # NotRead
          /\ platform \in {"linux", "windows"}
          /\ \A i \in 1..Len(NewestFirst) :
               ConventionalRoot(platform, NewestFirst[i]) \notin fsExists)
       => /\ lastDiscovery.err = ErrNotFound
          /\ Len(lastDiscovery.probes) > 1

\* C10 witness: 11.5 is requested, only the root of 11.7 exists, and the
\* discovery failed with SDK-not-found.
C10_Witness ==
    /\ optVersion = "11.5" /\ optRoot = "ANY" /\ platform = "windows"
    /\ ConventionalRoot("windows", "11.7") \in fsExists
    /\ ConventionalRoot("windows", "11.5") \notin fsExists
    /\ lastDiscovery.err = ErrNotFound
    /\ ExistsTests(lastDiscovery) = {ConventionalRoot("windows", "11.5")}
    /\ lastSdkRoot.err = ErrNotFound

-----------------------------------------------------------------------------
(* Claims about the header directory *)

\* Directory d holds the marker file.
HasMarker(d) == (d \o "/pyconfig.h") \in fsFiles

\* A read of _python_include_dir queried both candidates.
BothQueried ==
    /\ lastInclude # NotRead
    /\ pyRuns /\ execCache # Absent
    /\ sysInclude # RunFails /\ sysIncludePy # RunFails

\* C11: a read of _python_include_dir that obtained both candidates returns
\* the primary when the primary holds pyconfig.h, the secondary when only
\* the secondary holds it, and fails when neither holds it.
C11_HeaderFallback ==
    BothQueried =>
        IF HasMarker(sysInclude)
        THEN lastInclude.ok /\ lastInclude.val = sysInclude
        ELSE IF HasMarker(sysIncludePy)
        THEN lastInclude.ok /\ lastInclude.val = sysIncludePy
        ELSE ~lastInclude.ok

\* What the code does: the candidates are tried in order against the
\* marker test, and with no marker the read returns None.
FallbackOrNone ==
    BothQueried =>
        IF HasMarker(sysInclude)
        THEN lastInclude.ok /\ lastInclude.val = sysInclude
        ELSE IF HasMarker(sysIncludePy)
        THEN lastInclude.ok /\ lastInclude.val = sysIncludePy
        ELSE lastInclude.ok /\ lastInclude.val = PyNone

-----------------------------------------------------------------------------
(* Claims about the configure step *)

\* The build-system variable of each option name.
VariableOf(name) ==
    CASE name = <<"s", "h", "a", "r", "e", "d">>
            -> <<"S", "H", "A", "R", "E", "D">>
      [] name = <<"S", "h", "a", "r", "e", "d">>
            -> <<"S", "H", "A", "R", "E", "D">>
      [] name = <<"f", "P", "I", "C">> -> <<"F", "P", "I", "C">>

\* The token an option value is projected to.
TokenOf(value) ==
    IF value = BoolVal(TRUE) THEN "ON"
    ELSE IF value = BoolVal(FALSE) THEN "OFF"
    ELSE IF value = NoneVal THEN "None"
    ELSE value.s

\* C12: the configure step assigns one build-system variable per declared
\* option, none skipped and in the order of the options: the variable is
\* the option name uppercased and its value is "ON" for True, "OFF" for
\* False and the plain string of any other value. The definitions handed
\* to the build system are those the CMake helper started with plus the
\* variables of the options, each holding the projection of the last
\* option of that uppercased name.
C12_OptionsProjected ==
    configured # "new" =>
        /\ Len(assigned) = Len(options)
        /\ \A i \in 1..Len(options) :
             assigned[i] = <<VariableOf(options[i][1]), TokenOf(options[i][2])>>
        /\ DOMAIN definitions =
             DOMAIN cmakePreset
                \cup {VariableOf(options[i][1]) : i \in 1..Len(options)}
        /\ \A n \in DOMAIN cmakePreset :
             (\A i \in 1..Len(options) : VariableOf(options[i][1]) # n)
                => definitions[n] = cmakePreset[n]
        /\ \A i \in 1..Len(options) :
             (\A j \in (i + 1)..Len(options) :
                  VariableOf(options[j][1]) # VariableOf(options[i][1]))
                => definitions[VariableOf(options[i][1])] = TokenOf(options[i][2])

\* C12 witness: shared=False and fPIC="true" were projected to SHARED=OFF
\* and FPIC=true.
C12_Witness ==
    /\ configured = "returned"
    /\ options = << << <<"f", "P", "I", "C">>, StrVal("true") >>,
                    << <<"s", "h", "a", "r", "e", "d">>, BoolVal(FALSE) >> >>
    /\ definitions[<<"S", "H", "A", "R", "E", "D">>] = "OFF"
    /\ definitions[<<"F", "P", "I", "C">>] = "true"
    /\ Len(assigned) = Len(options)

-----------------------------------------------------------------------------
(* Claims about the version query and the resolved root *)

\* The compiler at a root runs but prints no release on the banner line.
Unmatched(root) ==
    /\ root \in DOMAIN nvccOut
    /\ nvccOut[root] # RunFails
    /\ Reported(root) = NoRelease

\* C13: when the compiler runs but its output does not match the banner
\* (empty, too few lines, or a banner line without a release), the version
\* query returns None: a read of _cuda_version with no version requested
\* returns None, and the validation of a root against an expected version
\* returns false, so that _cuda_sdk_root fails with the validation error.
C13_UnmatchedIsNone ==
    /\ \A root \in NvccRoots(lastSdkRoot) :
         Unmatched(root) => lastSdkRoot.err = ErrValidation
    /\ (lastVersion # NotRead /\ sdkRootCache # Absent
          /\ sdkRootCache # PyNone /\ Unmatched(sdkRootCache))
       => lastVersion.ok /\ lastVersion.val = PyNone

\* C14: a resolved root is never None, so neither the CUDA_ROOT_DEFAULT
\* fallback nor the None branch of _cuda_version is taken. A discovered
\* root is returned only after the compiler at it reported the version in
\* its directory name, and the read fails otherwise; a root given without
\* a version is returned as is, with no existence test and no compiler
\* invocation. A cached _cuda_version equals the requested version when
\* one was requested.
C14_RootValidated ==
    /\ sdkRootCache # PyNone
    /\ lastSdkRoot.ok => lastSdkRoot.val # PyNone
    /\ lastDiscovery.ok
         => /\ lastDiscovery.val[1] # PyNone
            /\ lastDiscovery.val[2] # PyNone
            /\ lastDiscovery.val[1] =
                 ConventionalRoot(platform, lastDiscovery.val[2])
            /\ Reported(lastDiscovery.val[1]) # lastDiscovery.val[2]
                 => ~lastSdkRoot.ok /\ sdkRootCache = Absent
    /\ (optRoot = "ANY" /\ sdkRootCache # Absent)
         => \E i \in 1..Len(NewestFirst) :
              /\ sdkRootCache = ConventionalRoot(platform, NewestFirst[i])
              /\ Reported(sdkRootCache) = NewestFirst[i]
    /\ (optRoot = "ANY" /\ lastSdkRoot.ok /\ lastSdkRoot.probes # <<>>)
         => NvccRoots(lastSdkRoot) = {lastSdkRoot.val}
    /\ (optRoot # "ANY" /\ optVersion = "ANY" /\ lastSdkRoot # NotRead)
         => /\ lastSdkRoot = Ok(optRoot, <<>>)
            /\ lastDiscovery = NotRead
    /\ (versionCache # Absent /\ optVersion # "ANY")
         => versionCache = optVersion

\* C14 witness: 11.5 was requested with no root; its root was discovered
\* and validated, and the version read afterwards is cached as 11.5.
C14_Witness ==
    /\ optVersion = "11.5" /\ optRoot = "ANY" /\ platform = "linux"
    /\ sdkRootCache = "/usr/local/cuda-11.5"
    /\ versionCache = "11.5"
    /\ lastVersion.ok
    /\ NvccRoots(lastVersion) = {"/usr/local/cuda-11.5"}

====
